---- MODULE Spec2Model ----
(***************************************************************************)
(* A model of app.py: the Flask service that registers users and phone     *)
(* numbers into a SQLite store (tables users, users_numbers, admin_users). *)
(*                                                                         *)
(* Text is modelled as a sequence of one-character strings, so that        *)
(* str.strip, re.sub and re.match are computed character by character.     *)
(* "^2" stands for the single character U+00B2 (SUPERSCRIPT TWO), for      *)
(* which Python's str.isdigit is true and which is not a decimal digit.    *)
(***************************************************************************)
EXTENDS Integers, Sequences, FiniteSets, TLC

(***************************************************************************)
(* Bounds of the model.                                                    *)
(***************************************************************************)
\* largest id the users table hands out before Register stops inserting
MaxUserId == 2
\* largest id the users_numbers table hands out
MaxNumberId == 1
\* requests that can be between two statements at the same time
NumReq == 2
\* digits and other characters of the strings given to validate_phone
MaxDigits == 8
MaxSeps == 2

(***************************************************************************)
(* Characters and strings.                                                 *)
(***************************************************************************)
\* the characters r'\s' matches and str.strip removes (representatives)
Whitespace == {" ", "\t", "\n"}

\* the characters for which str.isdigit is true (representatives)
AsciiDigits == {"0", "1", "2", "3", "4", "5", "6", "7", "8", "9"}
IsDigitChars == AsciiDigits \cup {"^2"}

\* str.strip(): leading and trailing whitespace removed
RECURSIVE lstrip(_)
lstrip(s) ==
    IF s # <<>> /\ Head(s) \in Whitespace THEN lstrip(Tail(s)) ELSE s

RECURSIVE rstrip(_)
rstrip(s) ==
    IF s # <<>> /\ s[Len(s)] \in Whitespace
    THEN rstrip(SubSeq(s, 1, Len(s) - 1))
    ELSE s

strip(s) == rstrip(lstrip(s))

\* re.sub(r'[\s\-\(\)\+]', '', phone)
PhoneStripClass == Whitespace \cup {"-", "(", ")", "+"}

RECURSIVE re_sub_phone(_)
re_sub_phone(s) ==
    IF s = <<>> THEN <<>>
    ELSE IF Head(s) \in PhoneStripClass THEN re_sub_phone(Tail(s))
    ELSE <<Head(s)>> \o re_sub_phone(Tail(s))

\* str.isdigit(): non-empty and every character a digit
isdigit(s) == s # <<>> /\ \A i \in 1..Len(s) : s[i] \in IsDigitChars

MinPhoneDigits == 7

validate_phone(phone) ==
    LET cleaned_phone == re_sub_phone(phone)
    IN  isdigit(cleaned_phone) /\ Len(cleaned_phone) >= MinPhoneDigits

\* [^\s@]
EmailClass(c) == c \notin Whitespace /\ c # "@"

\* the positions where '$' matches: the end, and before a final newline
DollarEnds(s) ==
    {Len(s)} \cup (IF s # <<>> /\ s[Len(s)] = "\n" THEN {Len(s) - 1} ELSE {})

\* re.match(r'^[^\s@]+@[^\s@]+\.[^\s@]+$', email) is not None
validate_email(email) ==
    \E end \in DollarEnds(email) :
      \E at \in 2..end :
        \E dot \in (at + 2)..(end - 1) :
          /\ email[at] = "@"
          /\ email[dot] = "."
          /\ \A i \in 1..(at - 1) : EmailClass(email[i])
          /\ \A i \in (at + 1)..(dot - 1) : EmailClass(email[i])
          /\ \A i \in (dot + 1)..end : EmailClass(email[i])

(***************************************************************************)
(* JSON values and Python locals.  A field of a request body is a string,  *)
(* JSON null, or missing; a Python local is a string or None.              *)
(***************************************************************************)
Absent == <<"<absent>">>
Null == <<"<null>">>
None == <<"<None>">>

\* data.get(key, '')
Get(data, key) == IF data[key] = Absent THEN <<>> ELSE data[key]

\* x or None
OrNone(s) == IF s = <<>> THEN None ELSE s

\* the texts of the exceptions a handler can catch
ExcLocked == "database is locked"
ExcCannotOpen == "unable to open database file"
ExcCheckFailed == "CHECK constraint failed: email IS NOT NULL OR phone IS NOT NULL"
ExcNoneStrip == "'NoneType' object has no attribute 'strip'"
ExcUnbound == "cannot access local variable 'conn' where it is not associated with a value"

\* the exceptions raised by the store (sqlite3.connect, execute, commit)
StoreExceptions == {ExcLocked, ExcCannotOpen, ExcCheckFailed}

\* str(e) of the exception raised at a point of failure of the store
StoreError(fail) == IF fail = "connect" THEN ExcCannotOpen ELSE ExcLocked

(***************************************************************************)
(* The requests the model sends.                                           *)
(***************************************************************************)
sAnn == <<" ", "A", "n", "n", " ">>
sAcme == <<"A", "c", "m", "e">>
sBlank == <<" ">>
sEmailGood == <<"a", "n", "n", "@", "b", ".", "c", "o">>
sEmailBad == <<"a", "n", "n", "@", "b">>
sPhoneGood == <<"+", "1", " ", "(", "5", "5", "5", ")", " ", "1", "2", "3", "-", "4", "5", "6", "7">>
sPhoneTab == <<"5", "5", "5", "\t", "1", "2", "3", "4">>
sPhoneBad == <<"1", "2", "3", "-", "4", "5", "6">>

UserBody(name, company, email, phone) ==
    [name |-> name, company |-> company, email |-> email, phone |-> phone]

\* POST /users/register: name, company, email, phone
RegisterBodies ==
    { UserBody(Absent, Absent, Absent, Absent),
      UserBody(Null, Absent, Absent, sPhoneGood),
      UserBody(sAnn, Absent, Null, sPhoneGood),
      UserBody(sAnn, Null, Absent, sPhoneGood),
      UserBody(Absent, Absent, Absent, sPhoneGood),
      UserBody(sBlank, Absent, sEmailGood, Absent),
      UserBody(Absent, sAcme, Absent, Absent),
      UserBody(sBlank, Absent, sEmailBad, sPhoneBad),
      UserBody(sAnn, Absent, Absent, Absent),
      UserBody(sAnn, Absent, sBlank, Absent),
      UserBody(sAnn, Absent, sEmailBad, sPhoneBad),
      UserBody(sAnn, Absent, sEmailBad, sPhoneGood),
      UserBody(sAnn, Absent, sEmailGood, sPhoneBad),
      UserBody(sAnn, Absent, Absent, sPhoneBad),
      UserBody(sAnn, Absent, Absent, sPhoneGood),
      UserBody(sAnn, sBlank, sBlank, sPhoneGood),
      UserBody(sAnn, Absent, sEmailGood, Absent),
      UserBody(sAnn, sAcme, sEmailGood, sPhoneGood) }

\* POST /numbers/detail_number: details_number
NumberBodies ==
    {[details_number |-> d] :
        d \in {Absent, Null, sBlank, sPhoneGood, sPhoneTab, sPhoneBad}}

\* the default admin of init_auth_db
AdminUsername == <<"c", "s", "m", "s", "_", "a", "d", "m", "i", "n">>
AdminPassword == <<"S", "e", "c", "u", "r", "e", "P", "a", "s", "s", "1", "2", "3", "!">>

LoginBody(username, password) == [username |-> username, password |-> password]

\* POST /auth/login: username, password
LoginBodies ==
    { LoginBody(Absent, Absent),
      LoginBody(Null, AdminPassword),
      LoginBody(AdminUsername, Null),
      LoginBody(sBlank, AdminPassword),
      LoginBody(AdminUsername, Absent),
      LoginBody(AdminUsername, AdminPassword),
      LoginBody(<<" ">> \o AdminUsername, AdminPassword \o <<"\n">>),
      LoginBody(AdminUsername, sAcme),
      LoginBody(sAnn, AdminPassword) }

\* secrets.token_hex: the values it can return (shortened)
Salts == {<<"0", "f">>, <<"a", "1">>}
Tokens == {<<"7", "c">>, <<"e", "2">>}

\* hashlib.sha256(s.encode()).hexdigest(), as a collision-free hash
sha256_hexdigest(s) == <<"sha256">> \o s

UserIdArgs == 0..MaxUserId
NumberIdArgs == 0..MaxNumberId

(***************************************************************************)
(* State.                                                                  *)
(***************************************************************************)
VARIABLES
    users,         \* table users: rows [id, name, company, email, phone]
    userSeq,       \* sqlite_sequence of users: the largest id ever committed
    numbers,       \* table users_numbers: rows [id, details_number]
    numberSeq,     \* sqlite_sequence of users_numbers
    admin_users,   \* table admin_users: rows [username, password_hash, salt]
    userDeletes,   \* per id: the DeleteUser requests between SELECT and DELETE
    numberDeletes, \* per id: the DeleteNumber requests between SELECT and DELETE
    last,          \* the request that finished last: input, response, its conn
    registered,    \* history: the rows inserted by Register requests answered 201
    deletedOk,     \* history: the ids of DeleteUser requests answered 200
    purged,        \* history: a DeleteAllUsers request was answered 200
    phone_in,      \* the argument of validate_phone (specification SpecPhone)
    phone_ok       \* its result

hvars == <<registered, deletedOk, purged>>
pvars == <<phone_in, phone_ok>>
vars == <<users, userSeq, numbers, numberSeq, admin_users, userDeletes,
          numberDeletes, last, registered, deletedOk, purged, phone_in, phone_ok>>

\* a finished request: what it was given, what it answered, and the state
\* of the connection it leaves behind
Finished(op, arg, status, message, error, conn, exc) ==
    [op |-> op, arg |-> arg, status |-> status, message |-> message,
     error |-> error, conn |-> conn, exc |-> exc,
     id |-> 0, rows |-> {}, token |-> <<>>, removed |-> 0, exists |-> FALSE]

\* init_db and init_auth_db have run: empty tables, one seeded admin
Init ==
    /\ users = {}
    /\ userSeq = 0
    /\ numbers = {}
    /\ numberSeq = 0
    /\ \E salt \in Salts :
         admin_users = {[username |-> AdminUsername,
                         password_hash |-> sha256_hexdigest(AdminPassword \o salt),
                         salt |-> salt]}
    /\ userDeletes = [id \in UserIdArgs |-> 0]
    /\ numberDeletes = [id \in NumberIdArgs |-> 0]
    /\ last = Finished("none", 0, 0, "", "", "None", <<>>)
    /\ registered = {}
    /\ deletedOk = {}
    /\ purged = FALSE
    /\ phone_in = <<>>
    /\ phone_ok = validate_phone(<<>>)

\* the requests that hold a connection between two statements
RECURSIVE Sum(_, _)
Sum(f, S) ==
    IF S = {} THEN 0
    ELSE LET x == CHOOSE y \in S : TRUE IN f[x] + Sum(f, S \ {x})

InFlight == Sum(userDeletes, UserIdArgs) + Sum(numberDeletes, NumberIdArgs)

Ids(table) == {row.id : row \in table}


(***************************************************************************)
(* UserRegistration.post                                                   *)
(***************************************************************************)
\* `if not data`: no body, or the empty object
NoData(data) == \A k \in DOMAIN data : data[k] = Absent

\* a .strip() on a JSON null raises AttributeError
StripRaises(data) == \E k \in DOMAIN data : data[k] = Null

RegisterLocals(data) ==
    [name |-> strip(Get(data, "name")),
     company |-> OrNone(strip(Get(data, "company"))),
     email |-> OrNone(strip(Get(data, "email"))),
     phone |-> OrNone(strip(Get(data, "phone")))]

NameMissing(l) == l.name = <<>>
ContactMissing(l) == l.email = None /\ l.phone = None
EmailInvalid(l) == l.email # None /\ ~validate_email(l.email)
PhoneInvalid_unchecked(l) == FALSE
PhoneInvalid(l) == l.phone # None /\ ~validate_phone(l.phone)

\* the checks before the database operation: the response of the first one
\* that ends the request, or status 0 when all pass
RegisterChecks(data) ==
    IF NoData(data)
    THEN [status |-> 400, error |-> "No data provided", exc |-> <<>>]
    ELSE IF StripRaises(data)
    THEN [status |-> 500, error |-> "An unexpected error occurred", exc |-> <<ExcNoneStrip>>]
    ELSE LET l == RegisterLocals(data) IN
         IF NameMissing(l)
         THEN [status |-> 400, error |-> "Name is required", exc |-> <<>>]
         ELSE IF ContactMissing(l)
         THEN [status |-> 400, error |-> "Either email or phone number is required", exc |-> <<>>]
         ELSE IF EmailInvalid(l)
         THEN [status |-> 400, error |-> "Invalid email format", exc |-> <<>>]
         ELSE IF PhoneInvalid(l)
         THEN [status |-> 400, error |-> "Invalid phone number format", exc |-> <<>>]
         ELSE [status |-> 0, error |-> "", exc |-> <<>>]

\* the checks and the locals of each body the model sends, computed once
RegisterChecked == [data \in RegisterBodies |-> RegisterChecks(data)]
RegisterParsed ==
    [data \in RegisterBodies |->
        IF StripRaises(data) THEN UserBody(None, None, None, None)
        ELSE RegisterLocals(data)]

\* NOT NULL on name and CHECK (email IS NOT NULL OR phone IS NOT NULL)
UsersConstraint(row) ==
    row.name # None /\ (row.email # None \/ row.phone # None)

\* AUTOINCREMENT: one more than the largest id the table ever held
NextId(seq) == seq + 1

Register(data, fail) ==
    LET chk == RegisterChecked[data]
        l == RegisterParsed[data]
        user_id == NextId(userSeq)
        row == [id |-> user_id, name |-> l.name, company |-> l.company,
                email |-> l.email, phone |-> l.phone]
    IN
    IF chk.status # 0 THEN
        /\ fail = "none"
        /\ last' = Finished("Register", data, chk.status, "", chk.error, "None", chk.exc)
        /\ UNCHANGED <<users, userSeq>>
    ELSE IF fail = "connect" THEN
        /\ last' = Finished("Register", data, 500, "",
                            "An unexpected error occurred", "None", <<StoreError(fail)>>)
        /\ UNCHANGED <<users, userSeq>>
    ELSE IF ~UsersConstraint(row) THEN
        /\ fail = "none"
        /\ last' = Finished("Register", data, 500, "",
                            "Database error occurred", "closed", <<ExcCheckFailed>>)
        /\ UNCHANGED <<users, userSeq>>
    ELSE IF fail \in {"execute", "commit"} THEN
        /\ last' = Finished("Register", data, 500, "",
                            "An unexpected error occurred", "closed", <<StoreError(fail)>>)
        /\ UNCHANGED <<users, userSeq>>
    ELSE
        /\ user_id <= MaxUserId
        /\ users' = users \cup {row}
        /\ userSeq' = user_id
        /\ last' = [Finished("Register", data, 201, "Registration successful!",
                             "", "closed", <<>>) EXCEPT !.id = user_id]

(***************************************************************************)
(* PhoneNumber.post                                                        *)
(***************************************************************************)
SaveNumberChecks(data) ==
    IF NoData(data)
    THEN [status |-> 400, error |-> "No data provided", exc |-> <<>>]
    ELSE IF StripRaises(data)
    THEN [status |-> 500, error |-> "An unexpected error occurred", exc |-> <<ExcNoneStrip>>]
    ELSE LET details_number == strip(Get(data, "details_number")) IN
         IF details_number = <<>>
         THEN [status |-> 400, error |-> "Details number is required", exc |-> <<>>]
         ELSE IF ~validate_phone(details_number)
         THEN [status |-> 400, error |-> "Invalid phone number format", exc |-> <<>>]
         ELSE [status |-> 0, error |-> "", exc |-> <<>>]

SaveNumberChecked == [data \in NumberBodies |-> SaveNumberChecks(data)]
SaveNumberParsed ==
    [data \in NumberBodies |->
        IF StripRaises(data) THEN None ELSE strip(Get(data, "details_number"))]

SaveNumber(data, fail) ==
    LET chk == SaveNumberChecked[data]
        number_id == NextId(numberSeq)
        row == [id |-> number_id, details_number |-> SaveNumberParsed[data]]
    IN
    IF chk.status # 0 THEN
        /\ fail = "none"
        /\ last' = Finished("SaveNumber", data, chk.status, "", chk.error, "None", chk.exc)
        /\ UNCHANGED <<numbers, numberSeq>>
    ELSE IF fail # "none" THEN
        /\ last' = Finished("SaveNumber", data, 500, "", "An unexpected error occurred",
                            IF fail = "connect" THEN "None" ELSE "closed",
                            <<StoreError(fail)>>)
        /\ UNCHANGED <<numbers, numberSeq>>
    ELSE
        /\ number_id <= MaxNumberId
        /\ numbers' = numbers \cup {row}
        /\ numberSeq' = number_id
        /\ last' = [Finished("SaveNumber", data, 201, "Phone number saved successfully!",
                             "", "closed", <<>>) EXCEPT !.id = number_id]

(***************************************************************************)
(* GetAllUsers.get, GetAllNumbers.get.  The rows are returned as a set:    *)
(* their order (created_at DESC) is not modelled.                          *)
(***************************************************************************)
SelectAll_first(table) == IF table = {} THEN {} ELSE {CHOOSE row \in table : TRUE}
SelectAll(table) == table

GetAllUsers(fail) ==
    IF fail # "none" THEN
        last' = Finished("GetAllUsers", 0, 500, "", StoreError(fail),
                         IF fail = "connect" THEN "None" ELSE "closed",
                         <<StoreError(fail)>>)
    ELSE
        last' = [Finished("GetAllUsers", 0, 200, "", "", "closed", <<>>)
                    EXCEPT !.rows = SelectAll(users)]

GetAllNumbers(fail) ==
    IF fail # "none" THEN
        last' = Finished("GetAllNumbers", 0, 500, "", StoreError(fail),
                         IF fail = "connect" THEN "None" ELSE "closed",
                         <<StoreError(fail)>>)
    ELSE
        last' = [Finished("GetAllNumbers", 0, 200, "", "", "closed", <<>>)
                    EXCEPT !.rows = SelectAll(numbers)]

(***************************************************************************)
(* DeleteAllUsers.delete, DeleteAllNumbers.delete                          *)
(***************************************************************************)
DeleteAllUsers(fail) ==
    IF fail # "none" THEN
        /\ last' = Finished("DeleteAllUsers", 0, 500, "", StoreError(fail),
                            IF fail = "connect" THEN "None" ELSE "closed",
                            <<StoreError(fail)>>)
        /\ UNCHANGED users
    ELSE
        /\ users' = {}
        /\ last' = [Finished("DeleteAllUsers", 0, 200, "Deleted users successfully!",
                             "", "closed", <<>>)
                        EXCEPT !.removed = Cardinality(users)]

DeleteAllNumbers(fail) ==
    IF fail # "none" THEN
        /\ last' = Finished("DeleteAllNumbers", 0, 500, "", StoreError(fail),
                            IF fail = "connect" THEN "None" ELSE "closed",
                            <<StoreError(fail)>>)
        /\ UNCHANGED numbers
    ELSE
        /\ numbers' = {}
        /\ last' = [Finished("DeleteAllNumbers", 0, 200,
                             "Deleted phone numbers successfully!", "", "closed", <<>>)
                        EXCEPT !.removed = Cardinality(numbers)]

(***************************************************************************)
(* DeleteUser.delete, DeleteNumber.delete: two statements, the SELECT that *)
(* checks the row exists and the DELETE.  The SELECT runs outside any      *)
(* transaction, so other requests' statements can come between the two.    *)
(***************************************************************************)
\* SELECT id FROM t WHERE id = ?  ... fetchone()
SelectById(table, id) == {row \in table : row.id = id}

\* `if not cursor.fetchone()`
NotFound_never(found) == FALSE
NotFound(found) == found = {}

DeleteUserCheck(user_id, fail) ==
    IF fail # "none" THEN
        /\ last' = Finished("DeleteUser", user_id, 500, "", StoreError(fail),
                            IF fail = "connect" THEN "None" ELSE "closed",
                            <<StoreError(fail)>>)
        /\ UNCHANGED userDeletes
    ELSE IF NotFound(SelectById(users, user_id)) THEN
        /\ last' = Finished("DeleteUser", user_id, 404, "", "User not found",
                            "closed", <<>>)
        /\ UNCHANGED userDeletes
    ELSE
        /\ InFlight < NumReq
        /\ userDeletes' = [userDeletes EXCEPT ![user_id] = @ + 1]
        /\ UNCHANGED last

DeleteUserExec(user_id, fail) ==
    LET gone == SelectById(users, user_id) IN
    /\ userDeletes[user_id] > 0
    /\ userDeletes' = [userDeletes EXCEPT ![user_id] = @ - 1]
    /\ IF fail # "none" THEN
          /\ last' = Finished("DeleteUser", user_id, 500, "", StoreError(fail),
                              "closed", <<StoreError(fail)>>)
          /\ UNCHANGED users
       ELSE
          /\ users' = users \ gone
          /\ last' = [Finished("DeleteUser", user_id, 200, "User deleted successfully",
                               "", "closed", <<>>)
                          EXCEPT !.removed = Cardinality(gone)]

DeleteNumberCheck(number_id, fail) ==
    IF fail # "none" THEN
        /\ last' = Finished("DeleteNumber", number_id, 500, "", StoreError(fail),
                            IF fail = "connect" THEN "None" ELSE "closed",
                            <<StoreError(fail)>>)
        /\ UNCHANGED numberDeletes
    ELSE IF NotFound(SelectById(numbers, number_id)) THEN
        /\ last' = Finished("DeleteNumber", number_id, 404, "", "Number not found",
                            "closed", <<>>)
        /\ UNCHANGED numberDeletes
    ELSE
        /\ InFlight < NumReq
        /\ numberDeletes' = [numberDeletes EXCEPT ![number_id] = @ + 1]
        /\ UNCHANGED last

DeleteNumberExec(number_id, fail) ==
    LET gone == SelectById(numbers, number_id) IN
    /\ numberDeletes[number_id] > 0
    /\ numberDeletes' = [numberDeletes EXCEPT ![number_id] = @ - 1]
    /\ IF fail # "none" THEN
          /\ last' = Finished("DeleteNumber", number_id, 500, "", StoreError(fail),
                              "closed", <<StoreError(fail)>>)
          /\ UNCHANGED numbers
       ELSE
          /\ numbers' = numbers \ gone
          /\ last' = [Finished("DeleteNumber", number_id, 200,
                               "Number deleted successfully", "", "closed", <<>>)
                          EXCEPT !.removed = Cardinality(gone)]

(***************************************************************************)
(* UserLogin.post.  conn is assigned only by sqlite3.connect (no           *)
(* `conn = None` before the try), so the finally block's `if conn` raises  *)
(* UnboundLocalError on every path that ends before the connect; the       *)
(* exception leaves the handler and the framework answers 500.             *)
(***************************************************************************)
LoginFinally(op, data, resp, conn, exc) ==
    IF conn = "unbound"
    THEN Finished(op, data, 500, "Internal Server Error", "", "unbound",
                  Append(exc, ExcUnbound))
    ELSE Finished(op, data, resp.status, resp.message, resp.error, "closed", exc)

UserLogin(data, fail, tok) ==
    LET username == strip(Get(data, "username"))
        password == strip(Get(data, "password"))
        result == {row \in admin_users : row.username = username}
        row == CHOOSE x \in result : TRUE
        input_hash == sha256_hexdigest(password \o row.salt)
        r500 == [status |-> 500, message |-> "", error |-> "An unexpected error occurred"]
        r401a == [status |-> 401, message |-> "", error |-> "Username and password are required"]
        r401b == [status |-> 401, message |-> "", error |-> "Invalid credentials"]
        r200 == [status |-> 200, message |-> "Login successful", error |-> ""]
    IN
    IF StripRaises(data) THEN
        /\ fail = "none" /\ tok = <<>>
        /\ last' = LoginFinally("UserLogin", data, r500, "unbound", <<ExcNoneStrip>>)
    ELSE IF username = <<>> \/ password = <<>> THEN
        /\ fail = "none" /\ tok = <<>>
        /\ last' = LoginFinally("UserLogin", data, r401a, "unbound", <<>>)
    ELSE IF fail = "connect" THEN
        /\ tok = <<>>
        /\ last' = LoginFinally("UserLogin", data, r500, "unbound", <<StoreError(fail)>>)
    ELSE IF fail = "execute" THEN
        /\ tok = <<>>
        /\ last' = LoginFinally("UserLogin", data, r500, "open", <<StoreError(fail)>>)
    ELSE IF result = {} THEN
        /\ tok = <<>>
        /\ last' = LoginFinally("UserLogin", data, r401b, "open", <<>>)
    ELSE IF input_hash = row.password_hash THEN
        /\ tok \in Tokens
        /\ last' = [LoginFinally("UserLogin", data, r200, "open", <<>>)
                        EXCEPT !.token = tok]
    ELSE
        /\ tok = <<>>
        /\ last' = LoginFinally("UserLogin", data, r401b, "open", <<>>)

(***************************************************************************)
(* HealthCheck.get: no finally block; conn.close() is reached only when    *)
(* both COUNT statements succeed.                                          *)
(***************************************************************************)
HealthCheck(fail) ==
    IF fail = "connect" THEN
        last' = Finished("HealthCheck", 0, 500, "Database connection failed",
                         StoreError(fail), "unbound", <<StoreError(fail)>>)
    ELSE IF fail = "execute" THEN
        last' = Finished("HealthCheck", 0, 500, "Database connection failed",
                         StoreError(fail), "open", <<StoreError(fail)>>)
    ELSE
        last' = [Finished("HealthCheck", 0, 200, "API is running smoothly!",
                          "", "closed", <<>>)
                    EXCEPT !.exists = TRUE,
                           !.rows = {[users_count |-> Cardinality(users),
                                      numbers_count |-> Cardinality(numbers)]}]

(***************************************************************************)
(* The service: any request at any time.  The handlers of the users        *)
(* routes read and write only the users table, those of the numbers routes *)
(* only users_numbers, and login only reads admin_users.                   *)
(***************************************************************************)
ReadFails == {"none", "connect", "execute"}
WriteFails == {"none", "connect", "execute", "commit"}
ExecFails == {"none", "execute", "commit"}

nvars == <<numbers, numberSeq, numberDeletes>>
uvars == <<users, userSeq, userDeletes>>

RegisterRoute(bodies) ==
    \E data \in bodies, fail \in WriteFails :
        Register(data, fail) /\ UNCHANGED userDeletes

GetAllUsersRoute ==
    \E fail \in ReadFails :
        GetAllUsers(fail) /\ UNCHANGED uvars

DeleteAllUsersRoute ==
    \E fail \in WriteFails :
        DeleteAllUsers(fail) /\ UNCHANGED <<userSeq, userDeletes>>

DeleteUserRoute ==
    \/ \E user_id \in UserIdArgs, fail \in ReadFails :
         DeleteUserCheck(user_id, fail) /\ UNCHANGED <<users, userSeq>>
    \/ \E user_id \in UserIdArgs, fail \in ExecFails :
         DeleteUserExec(user_id, fail) /\ UNCHANGED userSeq

UsersNext ==
    \/ RegisterRoute(RegisterBodies)
    \/ GetAllUsersRoute
    \/ DeleteAllUsersRoute
    \/ DeleteUserRoute

NumbersNext ==
    \/ \E data \in NumberBodies, fail \in WriteFails :
         SaveNumber(data, fail) /\ UNCHANGED numberDeletes
    \/ \E fail \in ReadFails :
         GetAllNumbers(fail) /\ UNCHANGED nvars
    \/ \E fail \in WriteFails :
         DeleteAllNumbers(fail) /\ UNCHANGED <<numberSeq, numberDeletes>>
    \/ \E number_id \in NumberIdArgs, fail \in ReadFails :
         DeleteNumberCheck(number_id, fail) /\ UNCHANGED <<numbers, numberSeq>>
    \/ \E number_id \in NumberIdArgs, fail \in ExecFails :
         DeleteNumberExec(number_id, fail) /\ UNCHANGED numberSeq

OtherNext ==
    \/ \E data \in LoginBodies, fail \in ReadFails, tok \in Tokens \cup {<<>>} :
         UserLogin(data, fail, tok)
    \/ \E fail \in ReadFails :
         HealthCheck(fail)

Next ==
    \/ UsersNext /\ UNCHANGED <<nvars, admin_users, hvars, pvars>>
    \/ NumbersNext /\ UNCHANGED <<uvars, admin_users, hvars, pvars>>
    \/ OtherNext /\ UNCHANGED <<uvars, nvars, admin_users, hvars, pvars>>

Spec == Init /\ [][Next]_vars

\* the users routes alone
SpecUsers ==
    Init /\ [][UsersNext /\ UNCHANGED <<nvars, admin_users, hvars, pvars>>]_vars

(***************************************************************************)
(* The users routes with the history of their answers: which rows were     *)
(* registered (201), which ids were deleted (200), whether the table was   *)
(* emptied (200).                                                          *)
(***************************************************************************)
RecordHistory ==
    /\ registered' =
         IF last'.op = "Register" /\ last'.status = 201 /\ userSeq' # userSeq
         THEN registered \cup SelectById(users', last'.id)
         ELSE registered
    /\ deletedOk' =
         IF last'.op = "DeleteUser" /\ last'.status = 200
            /\ userDeletes' # userDeletes
         THEN deletedOk \cup {last'.arg}
         ELSE deletedOk
    /\ purged' =
         (purged \/ (last'.op = "DeleteAllUsers" /\ last'.status = 200))

HistoryNext ==
    UsersNext /\ RecordHistory /\ UNCHANGED <<nvars, admin_users, pvars>>

SpecHistory == Init /\ [][HistoryNext]_vars

\* registrations, deletions by id and listings only, with their history
ListingBodies ==
    { UserBody(sAnn, Absent, Absent, sPhoneGood),
      UserBody(sAnn, Absent, sEmailGood, Absent),
      UserBody(sAnn, sAcme, sEmailGood, sPhoneGood),
      UserBody(sAnn, Absent, sEmailBad, sPhoneGood),
      UserBody(sAnn, Absent, Null, sPhoneGood) }

ListingNext ==
    /\ \/ RegisterRoute(ListingBodies)
       \/ GetAllUsersRoute
       \/ DeleteUserRoute
    /\ RecordHistory
    /\ UNCHANGED <<nvars, admin_users, pvars>>

SpecListing == Init /\ [][ListingNext]_vars

PhoneAlphabet == {"5", " ", "\t", "\n", "-", "(", ")", "+", "x", ".", "^2"}

CountOf(s, S) == Cardinality({i \in 1..Len(s) : s[i] \in S})

PhoneAppend(c) ==
    /\ IF c \in AsciiDigits
       THEN CountOf(phone_in, AsciiDigits) < MaxDigits
       ELSE CountOf(phone_in, PhoneAlphabet \ AsciiDigits) < MaxSeps
    /\ phone_in' = Append(phone_in, c)
    /\ phone_ok' = validate_phone(phone_in')
    /\ UNCHANGED <<uvars, nvars, admin_users, last, hvars>>

PhoneNext == \E c \in PhoneAlphabet : PhoneAppend(c)

SpecPhone == Init /\ [][PhoneNext]_vars

(***************************************************************************)
(* Properties.  What a statement calls a field that is "missing or empty   *)
(* after trimming": absent from the body, JSON null, or blank.             *)
(***************************************************************************)
Trimmed(v) == IF v \in {Absent, Null} THEN <<>> ELSE strip(v)

StoreRaised == \E i \in 1..Len(last.exc) : last.exc[i] \in StoreExceptions

\* the message of the first failing check, in the order: name required,
\* (email or phone) required, email format, phone format; "" when none fails
FirstFailedCheck(data) ==
    LET name == Trimmed(data.name)
        email == Trimmed(data.email)
        phone == Trimmed(data.phone)
    IN  IF name = <<>> THEN "Name is required"
        ELSE IF email = <<>> /\ phone = <<>>
        THEN "Either email or phone number is required"
        ELSE IF email # <<>> /\ ~validate_email(email) THEN "Invalid email format"
        ELSE IF phone # <<>> /\ ~validate_phone(phone)
        THEN "Invalid phone number format"
        ELSE ""

\* C1: a Register request of which some check fails is answered 400 with the
\* message of the first failing check (name required, contact required, email
\* format, phone format), and no connection to the store was opened.
C1_FirstFailedCheck ==
    (last.op = "Register" /\ FirstFailedCheck(last.arg) # "")
        => /\ last.status = 400
           /\ last.error = FirstFailedCheck(last.arg)
           /\ last.conn = "None"

\* C2: a login with a missing or empty username or password, an unknown
\* username or a password that does not match the stored salted hash is
\* answered 401; one with the matching password is answered 200 with a
\* message and a token; 500 is answered only after an exception.
C2_LoginStatus ==
    last.op = "UserLogin" =>
        LET username == Trimmed(last.arg.username)
            password == Trimmed(last.arg.password)
            matches ==
                \E row \in admin_users :
                    /\ row.username = username
                    /\ row.password_hash = sha256_hexdigest(password \o row.salt)
        IN  /\ (~StoreRaised /\ (username = <<>> \/ password = <<>> \/ ~matches))
                  => last.status = 401
            /\ (~StoreRaised /\ username # <<>> /\ password # <<>> /\ matches)
                  => (last.status = 200 /\ last.message # "" /\ last.token # <<>>)
            /\ last.status = 500 => last.exc # <<>>

\* C3: no request ends with the connection it opened still open.
C3_ConnectionClosed == last.conn # "open"

\* C4: a request during which the store raised is answered 500, and the text
\* of the exception is in no field of the response body.
C4_GenericError ==
    StoreRaised =>
        /\ last.status = 500
        /\ \A i \in 1..Len(last.exc) :
              last.error # last.exc[i] /\ last.message # last.exc[i]

\* C5: a DeleteUser request for an id that is not in the users table ends at
\* its existence check: it is answered 404 (500 if the store raises), it
\* issues no DELETE, and the users table, hence its row count, is unchanged.
C5_DeleteAbsentUser ==
    [][\A user_id \in UserIdArgs, fail \in ReadFails :
          (user_id \notin Ids(users) /\ DeleteUserCheck(user_id, fail))
              => /\ last'.op = "DeleteUser"
                 /\ last'.arg = user_id
                 /\ last'.status = (IF fail = "none" THEN 404 ELSE 500)
                 /\ userDeletes' = userDeletes
                 /\ users' = users
                 /\ Cardinality(users') = Cardinality(users)]_vars

\* C5 happens: an id that was registered and deleted is deleted again while
\* other users remain, and the answer is 404
C5_Witness ==
    /\ last.op = "DeleteUser"
    /\ last.status = 404
    /\ last.arg \in 1..userSeq
    /\ last.arg \notin Ids(users)
    /\ users # {}

\* C6: every row of the users table has a name that is non-empty after trim
\* and an email or a phone; a stored email satisfies validate_email and a
\* stored phone satisfies validate_phone.
C6_StoredRowsValid ==
    \A row \in users :
        /\ row.name # None
        /\ strip(row.name) # <<>>
        /\ (row.email # None \/ row.phone # None)
        /\ (row.email # None => validate_email(row.email))
        /\ (row.phone # None => validate_phone(row.phone))

\* C6 happens: the table holds a row without a phone and a row without an email
C6_Witness ==
    /\ \E row \in users : row.phone = None /\ row.email # None
    /\ \E row \in users : row.email = None /\ row.phone # None

\* C7: with only registrations and deletions by id since the empty table, a
\* listing the store does not fail is answered 200 with exactly the rows that
\* were registered (201) and whose id was not deleted (200): N - M rows.
C7_ListedRows ==
    (last.op = "GetAllUsers" /\ ~StoreRaised /\ ~purged)
        => /\ last.status = 200
           /\ last.rows = {row \in registered : row.id \notin deletedOk}
           /\ Cardinality(last.rows)
                = Cardinality(registered) - Cardinality(deletedOk)

\* C7 happens: two users registered, one deleted, one listed
C7_Witness ==
    /\ last.op = "GetAllUsers"
    /\ last.status = 200
    /\ Cardinality(registered) = 2
    /\ Cardinality(deletedOk) = 1
    /\ Cardinality(last.rows) = 1

\* C8: a Register request with a non-empty name, a valid phone and no email,
\* during which the store does not fail, is answered 201 with a positive
\* user_id greater than the id of every row registered before.
C8_FreshUserId ==
    (/\ last.op = "Register"
     /\ Trimmed(last.arg.name) # <<>>
     /\ Trimmed(last.arg.email) = <<>>
     /\ validate_phone(Trimmed(last.arg.phone))
     /\ ~StoreRaised)
        => /\ last.status = 201
           /\ last.id > 0
           /\ \A row \in registered :
                 row.id = last.id \/ row.id < last.id
           /\ Cardinality({row \in registered : row.id = last.id}) = 1

\* the ids of the rows a 201 answers for: positive, and greater than the id
\* of every row registered before, whatever was deleted since
RegisteredIdsIncrease ==
    (last.op = "Register" /\ last.status = 201)
        => /\ last.id > 0
           /\ Cardinality({row \in registered : row.id = last.id}) = 1
           /\ \A row \in registered : row.id <= last.id
           /\ \A row \in users : row \in registered

\* C9: validate_phone(s) is true exactly when s without its spaces, hyphens,
\* parentheses and plus signs (and with every other character kept) is made
\* of decimal digits only, at least 7 of them.
C9_PhoneAsStated ==
    phone_ok =
        (/\ \A i \in 1..Len(phone_in) :
               phone_in[i] \in {" ", "-", "(", ")", "+"} \cup AsciiDigits
         /\ CountOf(phone_in, AsciiDigits) >= 7)

\* what validate_phone accepts: the strings of which every character is
\* whitespace (space, tab, newline), a hyphen, a parenthesis, a plus sign or a
\* character str.isdigit accepts, with at least 7 of the last kind
PhoneAcceptedExactly ==
    phone_ok =
        (/\ \A i \in 1..Len(phone_in) :
               phone_in[i] \in Whitespace \cup {"-", "(", ")", "+"} \cup IsDigitChars
         /\ CountOf(phone_in, IsDigitChars) >= 7)

\* C10: a delete by id is answered 200 only if its own DELETE statement
\* removed the row (so of two requests for one id, one gets 200, one 404).
C10_DeleteOnce ==
    (last.op \in {"DeleteUser", "DeleteNumber"} /\ last.status = 200)
        => last.removed = 1
====
